---- MODULE Spec2Model ----
(***************************************************************************)
(* A model of the node query compiler (src/src/compiler.ts) and of the     *)
(* NodeQuery constructor (src/src/node-query.ts).                          *)
(*                                                                         *)
(* The library is a set of synchronous pure functions called by a host.    *)
(* A state of the model is one call: pc says whether the caller is idle    *)
(* or a call has completed, op names the entry point that was called,      *)
(* args are its arguments and ret is what it returned or threw.            *)
(*                                                                         *)
(* JavaScript strings are sequences of one-character strings, so that      *)
(* substring, trim, split, join, toString and the relational operators on  *)
(* strings are computed and not assumed.                                   *)
(***************************************************************************)
EXTENDS Integers, Sequences, FiniteSets, TLC

VARIABLES pc, op, args, ret

vars == <<pc, op, args, ret>>

(***************************************************************************)
(* Bounds of the model.                                                    *)
(***************************************************************************)
\* nodes of a syntax tree
NumNodes == 4
\* largest number literal and largest numeric attribute value
MaxNum == 12
\* longest primitive string handed to String.match
MaxStrLen == 3
\* longest list of an ArrayValue
MaxArrayLen == 2
\* most segments of a dotted attribute key
MaxKeyLen == 3
\* characters of a parser diagnostic after its prefix
MaxMsgTail == 4

\* node-query.ts: error.message.split("\n").slice(0, 3)
SliceEnd == 3

Min(a, b) == IF a < b THEN a ELSE b
Max(a, b) == IF a > b THEN a ELSE b

SeqsUpTo(S, n) == UNION {[1..k -> S] : k \in 0..n}

(***************************************************************************)
(* JavaScript strings.                                                     *)
(***************************************************************************)
\* the characters the model uses, in increasing UTF-16 code unit order
CodeUnits ==
  <<"\n", " ", "\"", ".", "0", "1", "2", "3", "4", "5", "6", "7", "8", "9",
    "L", "O", "P", "a", "b", "c", "d", "e", "f", "g", "h", "i", "l", "n",
    "o", "r", "s", "t", "u", "x", "z">>

CharCode(c) == CHOOSE i \in DOMAIN CodeUnits : CodeUnits[i] = c

Str_null == <<"n", "u", "l", "l">>
Str_undefined == <<"u", "n", "d", "e", "f", "i", "n", "e", "d">>
Str_true == <<"t", "r", "u", "e">>
Str_false == <<"f", "a", "l", "s", "e">>
Str_LexicalError == <<"L", "e", "x", "i", "c", "a", "l", " ", "e", "r", "r", "o", "r">>
Str_ParseError == <<"P", "a", "r", "s", "e", " ", "e", "r", "r", "o", "r">>
Str_Other == <<"O", "t", "h", "e", "r">>

\* the abstract relational comparison of two strings: a < b
RECURSIVE StrLess(_, _)
StrLess(a, b) ==
  IF b = <<>> THEN FALSE
  ELSE IF a = <<>> THEN TRUE
  ELSE IF Head(a) = Head(b) THEN StrLess(Tail(a), Tail(b))
  ELSE CharCode(Head(a)) < CharCode(Head(b))

\* String.prototype.startsWith, endsWith, includes
StartsWith(s, p) == Len(p) <= Len(s) /\ SubSeq(s, 1, Len(p)) = p
EndsWith(s, p) == Len(p) <= Len(s) /\ SubSeq(s, Len(s) - Len(p) + 1, Len(s)) = p
Includes(s, p) == \E i \in 0..Len(s) : StartsWith(SubSeq(s, i + 1, Len(s)), p)

\* String.prototype.substring(start, end): both indexes are clamped to
\* [0, length] and swapped when start > end
Substring(s, start, end) ==
  LET a == Max(0, Min(start, Len(s)))
      b == Max(0, Min(end, Len(s)))
  IN SubSeq(s, Min(a, b) + 1, Max(a, b))

\* String.prototype.trim, on the one white space character of the model
RECURSIVE TrimStart(_)
TrimStart(s) ==
  IF s # <<>> /\ Head(s) \in {" ", "\n"} THEN TrimStart(Tail(s)) ELSE s

RECURSIVE TrimEnd(_)
TrimEnd(s) ==
  IF s # <<>> /\ s[Len(s)] \in {" ", "\n"} THEN TrimEnd(SubSeq(s, 1, Len(s) - 1)) ELSE s

Trim(s) == TrimEnd(TrimStart(s))

\* Number.prototype.toString on a non-negative integer
Digits == <<"0", "1", "2", "3", "4", "5", "6", "7", "8", "9">>

Digit(d) == Digits[d + 1]

RECURSIVE NumToString(_)
NumToString(n) ==
  IF n < 10 THEN <<Digit(n)>> ELSE NumToString(n \div 10) \o <<Digit(n % 10)>>

\* String.prototype.split(sep) for a one-character separator
RECURSIVE SplitFrom(_, _, _)
SplitFrom(s, sep, cur) ==
  IF s = <<>> THEN <<cur>>
  ELSE IF Head(s) = sep THEN <<cur>> \o SplitFrom(Tail(s), sep, <<>>)
  ELSE SplitFrom(Tail(s), sep, Append(cur, Head(s)))

Split(s, sep) == SplitFrom(s, sep, <<>>)

\* Array.prototype.slice(0, end)
Slice0(a, end) == SubSeq(a, 1, Min(end, Len(a)))

\* Array.prototype.join(sep)
RECURSIVE Join(_, _)
Join(a, sep) ==
  IF a = <<>> THEN <<>>
  ELSE IF Len(a) = 1 THEN a[1]
  ELSE a[1] \o <<sep>> \o Join(Tail(a), sep)

(***************************************************************************)
(* JavaScript values: what a key path resolves to.                         *)
(***************************************************************************)
JsNull == [t |-> "null"]
JsUndefined == [t |-> "undefined"]
JsString(s) == [t |-> "string", v |-> s]
JsNumber(n) == [t |-> "number", v |-> n]
JsBoolean(b) == [t |-> "boolean", v |-> b]
JsArray(a) == [t |-> "array", v |-> a]
\* a syntax node: its identity and what getFullText() returns
JsNode(i, text) == [t |-> "node", id |-> i, fullText |-> text]

\* Array.isArray
IsArray(v) == v.t = "array"

\* the truthiness the guard `if (!target)` tests
Truthy(v) ==
  CASE v.t = "null" -> FALSE
    [] v.t = "undefined" -> FALSE
    [] v.t = "string" -> v.v # <<>>
    [] v.t = "number" -> v.v # 0
    [] v.t = "boolean" -> v.v
    [] OTHER -> TRUE

(***************************************************************************)
(* The Value family.                                                       *)
(***************************************************************************)
BooleanValue(b) == [cls |-> "Boolean", value |-> b]
IdentifierValue(s) == [cls |-> "Identifier", value |-> s]
NullValue == [cls |-> "Null"]
NumberValue(n) == [cls |-> "Number", value |-> n]
StringValue(s) == [cls |-> "String", value |-> s]
UndefinedValue == [cls |-> "Undefined"]

\* Value.actualValue
Value_actualValue(node) ==
  CASE node.t = "null" -> Str_null
    [] node.t = "undefined" -> Str_undefined
    [] node.t = "string" -> node.v
    [] node.t = "number" -> NumToString(node.v)
    [] node.t = "boolean" -> (IF node.v THEN Str_true ELSE Str_false)
    [] node.t = "node" -> Trim(node.fullText)

\* String.actualValue
String_actualValue(node) ==
  LET value == Value_actualValue(node)
  IN Substring(value, 1, Len(value) - 1)

\* this.actualValue(node), dispatched on the class of the value
ActualValue(val, node) ==
  IF val.cls = "String" THEN String_actualValue(node) ELSE Value_actualValue(node)

\* this.expectedValue(), dispatched on the class of the value
ExpectedValue(val) ==
  CASE val.cls = "Boolean" -> (IF val.value THEN Str_true ELSE Str_false)
    [] val.cls = "Identifier" -> val.value
    [] val.cls = "Null" -> Str_null
    [] val.cls = "Number" -> NumToString(val.value)
    [] val.cls = "String" -> val.value
    [] val.cls = "Undefined" -> Str_undefined

\* Value.match
Value_match(val, node, operator) ==
  LET actual == ActualValue(val, node)
      expected == ExpectedValue(val)
  IN CASE operator = "^=" -> StartsWith(actual, expected)
       [] operator = "$=" -> EndsWith(actual, expected)
       [] operator = "*=" -> Includes(actual, expected)
       [] operator = "!=" -> actual # expected
       [] operator = ">=" -> ~StrLess(actual, expected)
       [] operator = ">" -> StrLess(expected, actual)
       [] operator = "<=" -> ~StrLess(expected, actual)
       [] operator = "<" -> StrLess(actual, expected)
       [] OTHER -> actual = expected

\* Number.match
Number_match(val, node, operator) ==
  LET actual == ActualValue(val, node)
      expected == ExpectedValue(val)
  IN CASE operator = "!=" -> actual # expected
       [] operator = ">=" -> ~StrLess(actual, expected)
       [] operator = ">" -> StrLess(expected, actual)
       [] operator = "<=" -> ~StrLess(expected, actual)
       [] operator = "<" -> StrLess(actual, expected)
       [] OTHER -> actual = expected

\* value.match(node, operator), dispatched on the class of the value
Match(val, node, operator) ==
  IF val.cls = "Number" THEN Number_match(val, node, operator)
  ELSE Value_match(val, node, operator)

(***************************************************************************)
(* ArrayValue: a linked list (value, rest) of values.                      *)
(***************************************************************************)
\* a null value or rest
Nil == [cls |-> "nil"]

ArrayValueOf(value, rest) == [cls |-> "ArrayValue", value |-> value, rest |-> rest]

\* ArrayValue.expectedValue
RECURSIVE ArrayValue_expectedValue(_)
ArrayValue_expectedValue(av) ==
  (IF av.value.cls # "nil" THEN <<av.value>> ELSE <<>>)
    \o (IF av.rest.cls # "nil" THEN ArrayValue_expectedValue(av.rest) ELSE <<>>)

\* ArrayValue.compareNotEqual
CompareNotEqual(actual, expected) ==
  \/ Len(expected) # Len(actual)
  \/ \E index \in 1..Len(actual) : Match(expected[index], actual[index], "!=")

\* ArrayValue.compareEqual
CompareEqual(actual, expected) ==
  /\ Len(expected) = Len(actual)
  /\ \A index \in 1..Len(actual) : Match(expected[index], actual[index], "==")

\* a faulty variant of ArrayValue.match: NOT IN asks for some element to
\* differ, not for every element
ArrayValue_match_some(av, node, operator) ==
  LET expected == ArrayValue_expectedValue(av)
  IN CASE operator = "not_in" ->
            ~IsArray(node) /\ \E i \in 1..Len(expected) : Match(expected[i], node, "!=")
       [] operator = "in" ->
            ~IsArray(node) /\ \E i \in 1..Len(expected) : Match(expected[i], node, "==")
       [] operator = "!=" -> IsArray(node) /\ CompareNotEqual(node.v, expected)
       [] OTHER -> IsArray(node) /\ CompareEqual(node.v, expected)

\* ArrayValue.match
ArrayValue_match(av, node, operator) ==
  LET expected == ArrayValue_expectedValue(av)
  IN CASE operator = "not_in" ->
            ~IsArray(node) /\ \A i \in 1..Len(expected) : Match(expected[i], node, "!=")
       [] operator = "in" ->
            ~IsArray(node) /\ \E i \in 1..Len(expected) : Match(expected[i], node, "==")
       [] operator = "!=" -> IsArray(node) /\ CompareNotEqual(node.v, expected)
       [] OTHER -> IsArray(node) /\ CompareEqual(node.v, expected)

(***************************************************************************)
(* Attribute: the key path resolver and the match it feeds.                *)
(***************************************************************************)
\* the names a key segment is drawn from
Seg_a == <<"a">>
Seg_b == <<"b">>
Seg_f == <<"f">>
Seg_length == <<"l", "e", "n", "g", "t", "h">>
Seg_zz == <<"z", "z">>
SegNames == {Seg_a, Seg_b, Seg_f, Seg_length, Seg_zz}

\* a property slot of an object: an own field, a method of its prototype
\* (called with no argument, it returns v), or nothing
OwnSlot(v) == [kind |-> "own", v |-> v]
FnSlot(v) == [kind |-> "fn", v |-> v]
NoSlot == [kind |-> "none"]

Str_ab == <<"a", "b">>
Node2 == JsNode(2, <<"\"", "a", "b", "\"">>)

\* The objects a key path walks over.  Node 1 is the node under test: its own
\* field a holds x, its zero-argument method f returns y and its own field b
\* holds node 2, whose own field a is 0 and whose method f returns "ab".
Heap(x, y) ==
  [id \in {1, 2} |->
    [seg \in SegNames |->
      IF id = 1
      THEN CASE seg = Seg_a -> OwnSlot(x)
             [] seg = Seg_f -> FnSlot(y)
             [] seg = Seg_b -> OwnSlot(Node2)
             [] OTHER -> NoSlot
      ELSE CASE seg = Seg_a -> OwnSlot(JsNumber(0))
             [] seg = Seg_f -> FnSlot(JsString(Str_ab))
             [] OTHER -> NoSlot]]

Node1 == JsNode(1, <<" ", "r", " ">>)

\* target.hasOwnProperty(key): a field of a node, the length of a string
HasOwnProperty(heap, target, key) ==
  CASE target.t = "node" -> key \in SegNames /\ heap[target.id][key].kind = "own"
    [] target.t = "string" -> key = Seg_length
    [] OTHER -> FALSE

\* target[key] where target.hasOwnProperty(key)
OwnProperty(heap, target, key) ==
  IF target.t = "string" THEN JsNumber(Len(target.v)) ELSE heap[target.id][key].v

\* typeof target[key] === "function": no segment name of the model is a
\* method of a number, a string or a boolean
IsFunction(heap, target, key) ==
  target.t = "node" /\ key \in SegNames /\ heap[target.id][key].kind = "fn"

\* target[key].call(target)
CallFunction(heap, target, key) == heap[target.id][key].v

\* the body of the forEach callback of getTargetNode
ResolveSegment(heap, target, key) ==
  IF ~Truthy(target) THEN target
  ELSE IF HasOwnProperty(heap, target, key) THEN OwnProperty(heap, target, key)
  ELSE IF IsFunction(heap, target, key) THEN CallFunction(heap, target, key)
  ELSE JsNull

\* this.key.split('.').forEach(...)
RECURSIVE ResolveSegments(_, _, _)
ResolveSegments(heap, target, segs) ==
  IF segs = <<>> THEN target
  ELSE ResolveSegments(heap, ResolveSegment(heap, target, Head(segs)), Tail(segs))

\* Attribute.getTargetNode
GetTargetNode(heap, node, key) == ResolveSegments(heap, node, Split(key, "."))

\* Attribute.match, for a Value or an ArrayValue
Attribute_match(heap, attr, node) ==
  LET target == GetTargetNode(heap, node, attr.key)
  IN IF attr.value.cls = "ArrayValue"
     THEN ArrayValue_match(attr.value, target, attr.operator)
     ELSE Match(attr.value, target, attr.operator)

(***************************************************************************)
(* Syntax trees.  Nodes are 1..NumNodes and node 1 is the root, the one    *)
(* node without a parent (parent 0).  forEachChild visits the children of  *)
(* a node in increasing order of their numbers; no callback of the         *)
(* compiler returns a value, so forEachChild never stops early.            *)
(***************************************************************************)
Nodes == 1..NumNodes
Kinds == {"Foo", "Bar"}

Trees ==
  {[parent |-> p, kind |-> k] :
     p \in {q \in [Nodes -> 0..NumNodes] :
              q[1] = 0 /\ \A n \in Nodes \ {1} : q[n] \in 1..(n - 1)},
     k \in [Nodes -> Kinds]}

RECURSIVE Ascending(_)
Ascending(S) ==
  IF S = {} THEN <<>>
  ELSE LET m == CHOOSE x \in S : \A y \in S : x <= y
       IN <<m>> \o Ascending(S \ {m})

\* the nodes node.forEachChild hands to its callback, in order
ForEachChild(tree, node) == Ascending({c \in Nodes : tree.parent[c] = node})

\* SyntaxKind[node.kind]
KindName(tree, node) == tree.kind[node]

(***************************************************************************)
(* Selector.                                                               *)
(***************************************************************************)
\* a SimpleSelector without an attribute list
SimpleSelectorOf(nodeType) == [cls |-> "SimpleSelector", nodeType |-> nodeType]

\* relationship is ">", "+", "~" or "null"
SelectorOf(simpleSelector, relationship) ==
  [cls |-> "Selector", simpleSelector |-> simpleSelector, relationship |-> relationship]

ExpressionOf(selector, rest) == [cls |-> "Expression", selector |-> selector, rest |-> rest]

\* what a call returns: a list of nodes, or a thrown TypeError and no list
Returned(nodes) == [err |-> FALSE, nodes |-> nodes]
Threw == [err |-> TRUE, nodes |-> <<>>]

\* the node or the list of nodes handed to queryNodes
OneNode(n) == [array |-> FALSE, node |-> n]
NodeList(ns) == [array |-> TRUE, nodes |-> ns]

\* SimpleSelector.match, attributeList being null
SimpleSelector_match(tree, simpleSelector, node) ==
  simpleSelector.nodeType = KindName(tree, node)

\* Selector.match
Selector_match(tree, sel, node) ==
  sel.simpleSelector.cls = "nil" \/ SimpleSelector_match(tree, sel.simpleSelector, node)

\* the nodes of a list that match the selector, in the order of the list
Matching(tree, sel, ns) ==
  LET Test(n) == Selector_match(tree, sel, n) IN SelectSeq(ns, Test)

RECURSIVE HandleRecursiveChild(_, _)
RECURSIVE VisitChildren(_, _)

\* a faulty variant of handleRecursiveChild: the children, not their subtrees
HandleRecursiveChild_flat(tree, node) == ForEachChild(tree, node)

\* Selector.handleRecursiveChild: the nodes handed to the handler, in order
HandleRecursiveChild(tree, node) == VisitChildren(tree, ForEachChild(tree, node))

\* the callback of handleRecursiveChild over the children cs
VisitChildren(tree, cs) ==
  IF cs = <<>> THEN <<>>
  ELSE <<Head(cs)>> \o HandleRecursiveChild(tree, Head(cs)) \o VisitChildren(tree, Tail(cs))

\* the callback of getNextSibling over the children cs; 0 is null
RECURSIVE NextSiblingScan(_, _, _, _)
NextSiblingScan(cs, node, matched, nextSibling) ==
  IF cs = <<>> THEN nextSibling
  ELSE IF nextSibling # 0 THEN NextSiblingScan(Tail(cs), node, matched, nextSibling)
  ELSE IF matched THEN NextSiblingScan(Tail(cs), node, matched, Head(cs))
  ELSE NextSiblingScan(Tail(cs), node, Head(cs) = node, nextSibling)

\* the same scan without the guard `if (nextSibling) return`
RECURSIVE NextSiblingScan_unguarded(_, _, _, _)
NextSiblingScan_unguarded(cs, node, matched, nextSibling) ==
  IF cs = <<>> THEN nextSibling
  ELSE IF matched THEN NextSiblingScan_unguarded(Tail(cs), node, matched, Head(cs))
  ELSE NextSiblingScan_unguarded(Tail(cs), node, Head(cs) = node, nextSibling)

\* a faulty variant of getNextSibling: the last later sibling
GetNextSibling_last(tree, node) ==
  IF tree.parent[node] = 0 THEN [err |-> TRUE, node |-> 0]
  ELSE [err |-> FALSE,
        node |-> NextSiblingScan_unguarded(ForEachChild(tree, tree.parent[node]), node, FALSE, 0)]

\* Selector.getNextSibling: node.parent.forEachChild throws a TypeError when
\* node.parent is undefined
GetNextSibling(tree, node) ==
  IF tree.parent[node] = 0 THEN [err |-> TRUE, node |-> 0]
  ELSE [err |-> FALSE,
        node |-> NextSiblingScan(ForEachChild(tree, tree.parent[node]), node, FALSE, 0)]

\* the callback of handleSiblings over the children cs
RECURSIVE SiblingScan(_, _, _)
SiblingScan(cs, node, matched) ==
  IF cs = <<>> THEN <<>>
  ELSE (IF matched THEN <<Head(cs)>> ELSE <<>>)
         \o SiblingScan(Tail(cs), node, matched \/ Head(cs) = node)

\* a faulty variant of handleSiblings: no sibling of a node without parent
HandleSiblings_optional(tree, node) ==
  IF tree.parent[node] = 0 THEN Returned(<<>>)
  ELSE Returned(SiblingScan(ForEachChild(tree, tree.parent[node]), node, FALSE))

\* Selector.handleSiblings: the nodes handed to the handler, or the TypeError
\* of node.parent.forEachChild when node.parent is undefined
HandleSiblings(tree, node) ==
  IF tree.parent[node] = 0 THEN Threw
  ELSE Returned(SiblingScan(ForEachChild(tree, tree.parent[node]), node, FALSE))

\* Selector.findNodesByRelationship
FindNodesByRelationship(tree, sel, node) ==
  CASE sel.relationship = ">" -> Returned(Matching(tree, sel, ForEachChild(tree, node)))
    [] sel.relationship = "+" ->
         LET nextSibling == GetNextSibling(tree, node)
         IN IF nextSibling.err THEN Threw
            ELSE IF nextSibling.node # 0 /\ Selector_match(tree, sel, nextSibling.node)
            THEN Returned(<<nextSibling.node>>)
            ELSE Returned(<<>>)
    [] sel.relationship = "~" ->
         LET siblings == HandleSiblings(tree, node)
         IN IF siblings.err THEN Threw
            ELSE Returned(Matching(tree, sel, siblings.nodes))
    [] OTHER -> Returned(<<>>)

RECURSIVE Selector_queryNodes(_, _, _, _)
RECURSIVE Selector_flatMap(_, _, _, _)

\* Selector.queryNodes
Selector_queryNodes(tree, sel, input, descendantMatch) ==
  IF sel.relationship # "null" /\ ~input.array
  THEN FindNodesByRelationship(tree, sel, input.node)
  ELSE IF input.array
  THEN Selector_flatMap(tree, sel, input.nodes, descendantMatch)
  ELSE Returned(
         (IF Selector_match(tree, sel, input.node) THEN <<input.node>> ELSE <<>>)
           \o (IF descendantMatch
               THEN Matching(tree, sel, HandleRecursiveChild(tree, input.node))
               ELSE <<>>))

\* node.flatMap(childNode => this.queryNodes(childNode, descendantMatch)):
\* the first callback that throws ends the call
Selector_flatMap(tree, sel, ns, descendantMatch) ==
  IF ns = <<>> THEN Returned(<<>>)
  ELSE LET first == Selector_queryNodes(tree, sel, OneNode(Head(ns)), descendantMatch)
       IN IF first.err THEN Threw
          ELSE LET others == Selector_flatMap(tree, sel, Tail(ns), descendantMatch)
               IN IF others.err THEN Threw ELSE Returned(first.nodes \o others.nodes)

(***************************************************************************)
(* Expression.                                                             *)
(***************************************************************************)
RECURSIVE Expression_queryNodes(_, _, _, _)
RECURSIVE Expression_flatMap(_, _, _, _)

\* Expression.findNodesByRest
FindNodesByRest(tree, expression, input, descendantMatch) ==
  IF expression.rest.cls = "nil" THEN Returned(<<>>)
  ELSE Expression_queryNodes(tree, expression.rest, input, descendantMatch)

\* Expression.queryNodes
Expression_queryNodes(tree, expression, input, descendantMatch) ==
  LET matchingNodes == Selector_queryNodes(tree, expression.selector, input, descendantMatch)
  IN IF matchingNodes.err THEN Threw
     ELSE IF expression.rest.cls = "nil" THEN matchingNodes
     ELSE Expression_flatMap(tree, expression, matchingNodes.nodes, descendantMatch)

\* matchingNodes.flatMap(matchingNode => this.findNodesByRest(matchingNode,
\* descendantMatch)): the first callback that throws ends the call
Expression_flatMap(tree, expression, ns, descendantMatch) ==
  IF ns = <<>> THEN Returned(<<>>)
  ELSE LET first == FindNodesByRest(tree, expression, OneNode(Head(ns)), descendantMatch)
       IN IF first.err THEN Threw
          ELSE LET others == Expression_flatMap(tree, expression, Tail(ns), descendantMatch)
               IN IF others.err THEN Threw ELSE Returned(first.nodes \o others.nodes)

\* Expression.match: queryNodes with the default descendantMatch = true
Expression_match(tree, expression, node) ==
  LET found == Expression_queryNodes(tree, expression, OneNode(node), TRUE)
  IN [err |-> found.err, value |-> ~found.err /\ Len(found.nodes) # 0]

(***************************************************************************)
(* NodeQuery.  The parser is outside the model: a call of parser.parse     *)
(* either returns, leaving its result in parser.yy.result, or throws.      *)
(***************************************************************************)
ParserReturns(result) == [kind |-> "ok", result |-> result]
\* the thrown value: an instance of Error or not, and its message
ParserThrows(isError, message) == [kind |-> "throw", isError |-> isError, message |-> message]

ErrorOf(cls, message) == [cls |-> cls, message |-> message]

\* the value the parser threw
Thrown(outcome) ==
  ErrorOf(IF outcome.isError THEN "Error" ELSE "NotAnError", outcome.message)

\* a faulty variant of the constructor: the whole diagnostic is kept
NodeQuery_constructor_whole(outcome) ==
  IF outcome.kind = "ok"
  THEN [threw |-> FALSE, error |-> Nil, expression |-> outcome.result]
  ELSE IF /\ outcome.isError
          /\ \/ StartsWith(outcome.message, Str_LexicalError)
             \/ StartsWith(outcome.message, Str_ParseError)
  THEN [threw |-> TRUE, error |-> ErrorOf("SyntaxError", outcome.message),
        expression |-> Nil]
  ELSE [threw |-> TRUE, error |-> Thrown(outcome), expression |-> Nil]

\* NodeQuery.constructor: what it throws and what this.expression holds (Nil:
\* never assigned)
NodeQuery_constructor(outcome) ==
  IF outcome.kind = "ok"
  THEN [threw |-> FALSE, error |-> Nil, expression |-> outcome.result]
  ELSE IF /\ outcome.isError
          /\ \/ StartsWith(outcome.message, Str_LexicalError)
             \/ StartsWith(outcome.message, Str_ParseError)
  THEN [threw |-> TRUE,
        error |-> ErrorOf("SyntaxError",
                          Join(Slice0(Split(outcome.message, "\n"), SliceEnd), "\n")),
        expression |-> Nil]
  ELSE [threw |-> TRUE, error |-> Thrown(outcome), expression |-> Nil]

(***************************************************************************)
(* The calls of the value layer and their inputs.                          *)
(***************************************************************************)
NoArgs == [none |-> TRUE]
NoRet == [none |-> TRUE]

Init ==
  /\ pc = "idle"
  /\ op = "none"
  /\ args = NoArgs
  /\ ret = NoRet

\* the caller takes the result and is free to call again
Return ==
  /\ pc = "done"
  /\ pc' = "idle"
  /\ op' = "none"
  /\ args' = NoArgs
  /\ ret' = NoRet

Numbers == 0..MaxNum
OrderingOperators == {">", ">=", "<", "<="}
NumberOperators == OrderingOperators \cup {"==", "!="}

\* new Number(e).match(a, operator) on a resolved number a
NumberMatch ==
  /\ pc = "idle"
  /\ \E a \in Numbers, e \in Numbers, operator \in NumberOperators :
       /\ op' = "Number.match"
       /\ args' = [a |-> a, e |-> e, operator |-> operator]
       /\ ret' = Match(NumberValue(e), JsNumber(a), operator)
  /\ pc' = "done"

\* the strings a String literal holds, and the primitive strings and the
\* string literal source texts it is matched against
LiteralStrings == SeqsUpTo({"a", "b"}, MaxStrLen)
PrimitiveStrings == SeqsUpTo({"a", "b", "\""}, MaxStrLen)
Quoted(s) == <<"\"">> \o s \o <<"\"">>
StringTargets ==
  {JsString(s) : s \in PrimitiveStrings}
    \cup {JsNode(1, <<" ">> \o Quoted(s)) : s \in LiteralStrings}
StringOperators == {"==", "!=", "^="}

\* new String(v).match(node, operator)
StringMatch ==
  /\ pc = "idle"
  /\ \E v \in LiteralStrings, node \in StringTargets, operator \in StringOperators :
       /\ op' = "String.match"
       /\ args' = [v |-> v, node |-> node, operator |-> operator]
       /\ ret' = Match(StringValue(v), node, operator)
  /\ pc' = "done"

\* the values an ArrayValue is built from
ElementValues ==
  {NumberValue(1), NumberValue(10), IdentifierValue(<<"a">>), StringValue(<<"a">>),
   NullValue, UndefinedValue, BooleanValue(TRUE)}

\* the non-empty chains (value, rest) of at most n values
RECURSIVE ArrayChains(_)
ArrayChains(n) ==
  IF n = 0 THEN {}
  ELSE {ArrayValueOf(v, Nil) : v \in ElementValues}
         \cup {ArrayValueOf(v, r) : v \in ElementValues, r \in ArrayChains(n - 1)}

\* an empty list is (null, null)
ArrayValues == {ArrayValueOf(Nil, Nil)} \cup ArrayChains(MaxArrayLen)

ScalarTargets ==
  {JsNull, JsUndefined, JsString(<<"a">>), JsString(Quoted(<<"a">>)), JsNumber(1),
   JsNumber(10), JsBoolean(TRUE), JsBoolean(FALSE), JsNode(1, <<" ", "a">>),
   JsNode(1, <<"1", "0", "\n">>), JsNode(1, Quoted(<<"a">>))}
ArrayTargets ==
  {JsArray(<<>>), JsArray(<<JsNumber(1)>>), JsArray(<<JsNumber(1), JsString(<<"a">>)>>),
   JsArray(<<JsNode(1, <<"a">>), JsNumber(10)>>)}
ArrayOperators == {"in", "not_in", "==", "!="}

\* arrayValue.match(node, operator)
ArrayValueMatch ==
  /\ pc = "idle"
  /\ \E av \in ArrayValues, node \in ScalarTargets \cup ArrayTargets,
        operator \in ArrayOperators :
       /\ op' = "ArrayValue.match"
       /\ args' = [av |-> av, node |-> node, operator |-> operator]
       /\ ret' = ArrayValue_match(av, node, operator)
  /\ pc' = "done"

\* what the field a holds and what the method f returns
LeafValues ==
  {JsNull, JsUndefined, JsNumber(0), JsNumber(1), JsString(<<>>), JsString(Str_ab),
   JsBoolean(FALSE), JsBoolean(TRUE), Node2}

\* the dotted keys of at most MaxKeyLen segments
Keys == {Join(segs, ".") : segs \in SeqsUpTo(SegNames, MaxKeyLen) \ {<<>>}}

\* attribute.getTargetNode(node) on node 1
ResolveKey ==
  /\ pc = "idle"
  /\ \E x \in LeafValues, y \in LeafValues, key \in Keys :
       /\ op' = "Attribute.getTargetNode"
       /\ args' = [x |-> x, y |-> y, key |-> key]
       /\ ret' = GetTargetNode(Heap(x, y), Node1, key)
  /\ pc' = "done"

AttributeOf(key, operator, value) == [key |-> key, operator |-> operator, value |-> value]

AttributeKeys == {Join(segs, ".") : segs \in SeqsUpTo(SegNames, 2) \ {<<>>}}
AttributeValues ==
  {UndefinedValue, NullValue, NumberValue(0), NumberValue(9),
   ArrayValueOf(NumberValue(0), ArrayValueOf(NullValue, Nil))}
AttributeOperators == {"==", "!=", ">", "in", "not_in"}

\* attribute.match(node) on node 1, whose field a holds a number or a leaf
AttributeMatch ==
  /\ pc = "idle"
  /\ \E x \in LeafValues \cup {JsNumber(n) : n \in Numbers}, key \in AttributeKeys,
        operator \in AttributeOperators, value \in AttributeValues :
       /\ op' = "Attribute.match"
       /\ args' = [x |-> x, key |-> key, operator |-> operator, value |-> value]
       /\ ret' = Attribute_match(Heap(x, JsUndefined), AttributeOf(key, operator, value), Node1)
  /\ pc' = "done"

NextValue ==
  \/ NumberMatch
  \/ StringMatch
  \/ ArrayValueMatch
  \/ ResolveKey
  \/ AttributeMatch
  \/ Return

SpecValue == Init /\ [][NextValue]_vars

(***************************************************************************)
(* The calls of the structural layer and their inputs.                     *)
(***************************************************************************)
Relationships == {"null", ">", "+", "~"}
TypedSelectors == {SelectorOf(SimpleSelectorOf(k), r) : k \in Kinds, r \in Relationships}
Selectors == TypedSelectors \cup {SelectorOf(Nil, r) : r \in Relationships}

\* selector.queryNodes(node, descendantMatch)
SelectorQuery ==
  /\ pc = "idle"
  /\ \E tree \in Trees, sel \in Selectors, node \in Nodes, d \in BOOLEAN :
       /\ op' = "Selector.queryNodes"
       /\ args' = [tree |-> tree, sel |-> sel, node |-> node, descendantMatch |-> d]
       /\ ret' = Selector_queryNodes(tree, sel, OneNode(node), d)
  /\ pc' = "done"

\* the lists a caller hands to queryNodes: none or two nodes
Lists == {<<>>} \cup {<<a, b>> : a \in Nodes, b \in Nodes}

\* selector.queryNodes(nodes, descendantMatch) on a list of nodes
SelectorQueryList ==
  /\ pc = "idle"
  /\ \E tree \in Trees, sel \in TypedSelectors, ns \in Lists, d \in BOOLEAN :
       /\ op' = "Selector.queryNodes[]"
       /\ args' = [tree |-> tree, sel |-> sel, nodes |-> ns, descendantMatch |-> d]
       /\ ret' = Selector_queryNodes(tree, sel, NodeList(ns), d)
  /\ pc' = "done"

\* the expressions of two selectors
Chains == {ExpressionOf(head, ExpressionOf(rest, Nil)) : head \in TypedSelectors, rest \in TypedSelectors}

\* expression.queryNodes(node, descendantMatch), the expression having a rest
ExpressionQuery ==
  /\ pc = "idle"
  /\ \E tree \in Trees, expression \in Chains, node \in Nodes, d \in BOOLEAN :
       /\ op' = "Expression.queryNodes"
       /\ args' = [tree |-> tree, expression |-> expression, node |-> node,
                   descendantMatch |-> d]
       /\ ret' = Expression_queryNodes(tree, expression, OneNode(node), d)
  /\ pc' = "done"

\* expression.match(node), the expression being one selector
ExpressionMatch ==
  /\ pc = "idle"
  /\ \E tree \in Trees, sel \in Selectors, node \in Nodes :
       /\ op' = "Expression.match"
       /\ args' = [tree |-> tree, sel |-> sel, node |-> node]
       /\ ret' = Expression_match(tree, ExpressionOf(sel, Nil), node)
  /\ pc' = "done"

NextTree ==
  \/ SelectorQuery
  \/ SelectorQueryList
  \/ ExpressionQuery
  \/ ExpressionMatch
  \/ Return

SpecTree == Init /\ [][NextTree]_vars

(***************************************************************************)
(* The construction of a NodeQuery and the outcomes of the parser.         *)
(***************************************************************************)
MessageHeads ==
  {Str_LexicalError, Str_ParseError, Str_Other, <<>>, <<"x">> \o Str_ParseError}
MessageTails == SeqsUpTo({"x", "\n"}, MaxMsgTail)
Messages == {h \o t : h \in MessageHeads, t \in MessageTails}

ParserOutcomes ==
  {ParserReturns(ExpressionOf(sel, Nil)) : sel \in TypedSelectors}
    \cup {ParserThrows(e, m) : e \in BOOLEAN, m \in Messages}

\* new NodeQuery(nql)
NewNodeQuery ==
  /\ pc = "idle"
  /\ \E outcome \in ParserOutcomes :
       /\ op' = "NodeQuery"
       /\ args' = [parser |-> outcome]
       /\ ret' = NodeQuery_constructor(outcome)
  /\ pc' = "done"

NextCompile ==
  \/ NewNodeQuery
  \/ Return

SpecCompile == Init /\ [][NextCompile]_vars

(***************************************************************************)
(* Properties.                                                             *)
(***************************************************************************)
Called(name) == pc = "done" /\ op = name

NoDuplicates(s) == \A i, j \in 1..Len(s) : i # j => s[i] # s[j]
Elements(s) == {s[i] : i \in 1..Len(s)}

\* a is b or an ancestor of b
RECURSIVE AncestorOrSelf(_, _, _)
AncestorOrSelf(tree, a, b) ==
  IF a = b THEN TRUE
  ELSE IF tree.parent[b] = 0 THEN FALSE
  ELSE AncestorOrSelf(tree, a, tree.parent[b])

\* a comes before b in the depth-first preorder of the tree: a is an ancestor
\* of b, or they lie under two children of one node, a under the earlier one
PreorderBefore(tree, a, b) ==
  \/ a # b /\ AncestorOrSelf(tree, a, b)
  \/ \E c1, c2 \in Nodes :
       /\ c1 < c2
       /\ tree.parent[c1] # 0
       /\ tree.parent[c1] = tree.parent[c2]
       /\ AncestorOrSelf(tree, c1, a)
       /\ AncestorOrSelf(tree, c2, b)

\* C1: a selector without relationship and with a type only, queried with
\* descendantMatch = true on one node, returns the nodes of that node's subtree
\* that have the type, each once, in depth-first preorder.
C1_TypeSelection ==
  (/\ Called("Selector.queryNodes")
   /\ args.sel.relationship = "null"
   /\ args.sel.simpleSelector.cls # "nil"
   /\ args.descendantMatch)
  => /\ ~ret.err
     /\ NoDuplicates(ret.nodes)
     /\ Elements(ret.nodes) =
          {m \in Nodes : /\ AncestorOrSelf(args.tree, args.node, m)
                         /\ args.tree.kind[m] = args.sel.simpleSelector.nodeType}
     /\ \A i, j \in 1..Len(ret.nodes) :
          i < j => PreorderBefore(args.tree, ret.nodes[i], ret.nodes[j])

\* a query that returns three nodes of which the second is deeper than the third
C1_Witness ==
  /\ Called("Selector.queryNodes")
  /\ args.sel.relationship = "null"
  /\ args.sel.simpleSelector.cls # "nil"
  /\ args.descendantMatch
  /\ Len(ret.nodes) = 3
  /\ ret.nodes[2] > ret.nodes[3]

\* the later siblings of a node
LaterSiblings(tree, n) == {c \in Nodes : tree.parent[c] = tree.parent[n] /\ c > n}

\* C2: a selector with relationship + and a type, queried on a node that has a
\* parent, returns the sibling right after the node when there is one and it
\* has the type, and nothing otherwise.
C2_AdjacentSibling ==
  (/\ Called("Selector.queryNodes")
   /\ args.sel.relationship = "+"
   /\ args.sel.simpleSelector.cls # "nil"
   /\ args.tree.parent[args.node] # 0)
  => LET later == LaterSiblings(args.tree, args.node)
         next == CHOOSE c \in later : \A o \in later : c <= o
     IN /\ ~ret.err
        /\ ret.nodes =
             IF later # {} /\ args.tree.kind[next] = args.sel.simpleSelector.nodeType
             THEN <<next>>
             ELSE <<>>

\* the next sibling is of another type and a later sibling has the type
C2_Witness ==
  /\ Called("Selector.queryNodes")
  /\ args.sel.relationship = "+"
  /\ args.sel.simpleSelector.cls # "nil"
  /\ args.tree.parent[args.node] # 0
  /\ ret.nodes = <<>>
  /\ \E c \in LaterSiblings(args.tree, args.node) :
       args.tree.kind[c] = args.sel.simpleSelector.nodeType

\* the comparison of two integers
IntCompare(a, operator, e) ==
  CASE operator = ">" -> a > e
    [] operator = ">=" -> a >= e
    [] operator = "<" -> a < e
    [] operator = "<=" -> a <= e

\* C3: the ordering operators of Number compare numbers: Number(e).match(a, op)
\* is the comparison a op e of the integers, and [a>9] matches a node whose
\* field a is the number 10.
C3_NumericOrdering ==
  /\ (Called("Number.match") /\ args.operator \in OrderingOperators)
       => ret = IntCompare(args.a, args.operator, args.e)
  /\ (/\ Called("Attribute.match")
      /\ args.key = Seg_a
      /\ args.operator = ">"
      /\ args.value = NumberValue(9)
      /\ args.x = JsNumber(10))
       => ret = TRUE

OtherMembership(operator) == IF operator = "in" THEN "not_in" ELSE "in"

\* C4: on a target that is not an array, IN and NOT IN of one ArrayValue are
\* each the negation of the other; on an array both are false.
C4_InNotInComplement ==
  (Called("ArrayValue.match") /\ args.operator \in {"in", "not_in"})
  => IF IsArray(args.node)
     THEN ret = FALSE
     ELSE ret = ~ArrayValue_match(args.av, args.node, OtherMembership(args.operator))

\* NOT IN is false on a list of two values of which only one equals the target
C4_Witness ==
  /\ Called("ArrayValue.match")
  /\ args.operator = "not_in"
  /\ ~IsArray(args.node)
  /\ ret = FALSE
  /\ LET expected == ArrayValue_expectedValue(args.av)
     IN /\ Len(expected) = 2
        /\ \E i \in 1..2 : Match(expected[i], args.node, "!=")

\* the results of the rest of an expression on each of the nodes ns with
\* descendantMatch = true, one after the other
RECURSIVE RestOfEach(_, _, _)
RestOfEach(tree, rest, ns) ==
  IF ns = <<>> THEN <<>>
  ELSE Expression_queryNodes(tree, rest, OneNode(Head(ns)), TRUE).nodes
         \o RestOfEach(tree, rest, Tail(ns))

\* C5: for either descendantMatch, an expression with a rest returns the
\* results of the rest, evaluated with descendantMatch = true, on each node
\* the head selector returns, one after the other.
C5_RestWithDescendants ==
  (Called("Expression.queryNodes") /\ ~ret.err)
  => ret.nodes =
       RestOfEach(args.tree, args.expression.rest,
                  Selector_queryNodes(args.tree, args.expression.selector,
                                      OneNode(args.node), args.descendantMatch).nodes)

\* a value that is neither null nor undefined
Present(v) == v.t \notin {"null", "undefined"}

\* C6: when a segment of the key is neither a field nor a method of the
\* value the segments before it resolve to, be that value falsy or not, the
\* key resolves to absent, which actualValue renders as "undefined".
C6_AbsentIsUndefined ==
  Called("Attribute.getTargetNode")
  => LET heap == Heap(args.x, args.y)
         segs == Split(args.key, ".")
     IN \A i \in 1..Len(segs) :
          LET target == ResolveSegments(heap, Node1, SubSeq(segs, 1, i - 1))
          IN (/\ Present(target)
              /\ ~HasOwnProperty(heap, target, segs[i])
              /\ ~IsFunction(heap, target, segs[i]))
             => Value_actualValue(ret) = Str_undefined

\* C7: match of an expression of one selector without relationship is the
\* selector's test of the node itself.
C7_MatchIsOnTheNode ==
  (Called("Expression.match") /\ args.sel.relationship = "null" /\ ~ret.err)
  => ret.value = Selector_match(args.tree, args.sel, args.node)

\* the places of the line feeds of a message
LineFeeds(m) == {i \in 1..Len(m) : m[i] = "\n"}

\* the first three lines of a message: the message up to its third line feed
FirstThreeLines(m) ==
  IF Cardinality(LineFeeds(m)) < 3 THEN m
  ELSE LET third == CHOOSE i \in LineFeeds(m) :
                      Cardinality({j \in LineFeeds(m) : j < i}) = 2
       IN SubSeq(m, 1, third - 1)

IsDiagnostic(outcome) ==
  /\ outcome.isError
  /\ \/ StartsWith(outcome.message, Str_LexicalError)
     \/ StartsWith(outcome.message, Str_ParseError)

\* C8: the constructor ends in one of three ways: the parser returned and the
\* expression is its result; the parser threw an Error whose message starts
\* with "Lexical error" or "Parse error" and the constructor throws a
\* SyntaxError with the first three lines of that message; the parser threw
\* anything else and that is what the constructor throws.  When it throws, no
\* expression was assigned.
C8_ConstructorOutcomes ==
  Called("NodeQuery")
  => \/ /\ args.parser.kind = "ok"
        /\ ~ret.threw
        /\ ret.expression = args.parser.result
     \/ /\ args.parser.kind = "throw"
        /\ IsDiagnostic(args.parser)
        /\ ret.threw
        /\ ret.error = ErrorOf("SyntaxError", FirstThreeLines(args.parser.message))
        /\ ret.expression = Nil
     \/ /\ args.parser.kind = "throw"
        /\ ~IsDiagnostic(args.parser)
        /\ ret.threw
        /\ ret.error = Thrown(args.parser)
        /\ ret.expression = Nil

\* a SyntaxError whose message is shorter than the diagnostic of the parser
C8_Witness ==
  /\ Called("NodeQuery")
  /\ args.parser.kind = "throw"
  /\ ret.threw
  /\ ret.error.cls = "SyntaxError"
  /\ Len(ret.error.message) < Len(args.parser.message)

\* C9: on a primitive string s, String(v).match(s, "==") is s = v: nothing is
\* stripped from s.
C9_PrimitiveStringKept ==
  (Called("String.match") /\ args.node.t = "string" /\ args.operator = "==")
  => ret = (args.node.v = args.v)

\* the head selector of an expression throws on the node
HeadThrows(tree, sel, node) ==
  sel.relationship \in {"+", "~"} /\ tree.parent[node] = 0

\* C10: a selector with relationship + or ~ throws on a node without parent
\* and a selector with > or without relationship does not; an expression
\* throws, and returns no list, exactly when its head selector throws or one
\* of the nodes the head selector returns makes its rest throw.
C10_ParentlessSiblingThrows ==
  /\ Called("Selector.queryNodes")
       => /\ ret.err = HeadThrows(args.tree, args.sel, args.node)
          /\ ret.err => ret.nodes = <<>>
  /\ Called("Expression.queryNodes")
       => LET head == args.expression.selector
              rest == args.expression.rest.selector
              heads == Selector_queryNodes(args.tree, head,
                                  OneNode(args.node), args.descendantMatch)
          IN /\ ret.err =
                  \/ HeadThrows(args.tree, head, args.node)
                  \/ \E i \in 1..Len(heads.nodes) : HeadThrows(args.tree, rest, heads.nodes[i])
             /\ ret.err => ret.nodes = <<>>

\* the head selector returned the root and another node, and the rest threw
C10_Witness ==
  /\ Called("Expression.queryNodes")
  /\ args.expression.selector.relationship = "null"
  /\ args.expression.rest.selector.relationship \in {"+", "~"}
  /\ args.node = 1
  /\ Len(Selector_queryNodes(args.tree, args.expression.selector, OneNode(1),
                             args.descendantMatch).nodes) > 1
  /\ ret.err

====
